---- MODULE Spec2Model ----
(***************************************************************************)
(* La Cuillere d'Argent indexer (src/main.py): the page reading pipeline   *)
(* of CuillereDArgent.read, the page walk of walk_images and the sink      *)
(* protocol of index_recipes.                                              *)
(*                                                                         *)
(* A Python str is a sequence of characters, a character is a one-letter   *)
(* string.  The str methods the program calls are operators over such      *)
(* sequences, computed the way Python computes them.                       *)
(***************************************************************************)
EXTENDS Integers, Sequences, FiniteSets, TLC

(***************************************************************************)
(* Characters                                                              *)
(***************************************************************************)
UpperSeq ==
    << "A", "B", "C", "D", "E", "F", "G", "H", "I", "J", "K", "L", "M",
       "N", "O", "P", "Q", "R", "S", "T", "U", "V", "W", "X", "Y", "Z",
       "Â", "À" >>

LowerSeq ==
    << "a", "b", "c", "d", "e", "f", "g", "h", "i", "j", "k", "l", "m",
       "n", "o", "p", "q", "r", "s", "t", "u", "v", "w", "x", "y", "z",
       "â", "à" >>

\* the unaccented form of LowerSeq, position by position
AsciiSeq ==
    << "a", "b", "c", "d", "e", "f", "g", "h", "i", "j", "k", "l", "m",
       "n", "o", "p", "q", "r", "s", "t", "u", "v", "w", "x", "y", "z",
       "a", "a" >>

DigitSeq == << "0", "1", "2", "3", "4", "5", "6", "7", "8", "9" >>

Range(s) == { s[k] : k \in 1..Len(s) }

Last(s) == s[Len(s)]

UpperCh == Range(UpperSeq)
LowerCh == Range(LowerSeq)
DigitCh == Range(DigitSeq)

IndexOf(c, s) == CHOOSE k \in 1..Len(s) : s[k] = c

\* str.lower / str.upper on one character
LowerOfCh(c) == IF c \in UpperCh THEN LowerSeq[IndexOf(c, UpperSeq)] ELSE c
UpperOfCh(c) == IF c \in LowerCh THEN UpperSeq[IndexOf(c, LowerSeq)] ELSE c

\* the value of a decimal digit
DigitValue(c) == IndexOf(c, DigitSeq) - 1

(***************************************************************************)
(* Python str methods                                                      *)
(***************************************************************************)
\* str.isupper: at least one cased character and no lowercase one
isupper(s) ==
    /\ \E k \in 1..Len(s) : s[k] \in UpperCh
    /\ \A k \in 1..Len(s) : s[k] \notin LowerCh

\* str.isnumeric: non-empty and every character numeric
isnumeric(s) == Len(s) > 0 /\ \A k \in 1..Len(s) : s[k] \in DigitCh

\* str.isalnum: non-empty and every character a letter or a digit
isalnum(s) ==
    Len(s) > 0 /\ \A k \in 1..Len(s) : s[k] \in UpperCh \cup LowerCh \cup DigitCh

\* the position of the first space of s, 0 when there is none
FirstSpace(s) ==
    IF \E k \in 1..Len(s) : s[k] = " "
    THEN CHOOSE k \in 1..Len(s) : s[k] = " " /\ \A j \in 1..(k - 1) : s[j] # " "
    ELSE 0

\* s.split(" ")[0]
FirstToken(s) == IF FirstSpace(s) = 0 THEN s ELSE SubSeq(s, 1, FirstSpace(s) - 1)

\* s.split(" ", 1)
Split1(s) ==
    IF FirstSpace(s) = 0
    THEN << s >>
    ELSE << SubSeq(s, 1, FirstSpace(s) - 1), SubSeq(s, FirstSpace(s) + 1, Len(s)) >>

\* str.strip
RECURSIVE lstrip(_)
lstrip(s) == IF s # << >> /\ Head(s) = " " THEN lstrip(Tail(s)) ELSE s

RECURSIVE rstrip(_)
rstrip(s) ==
    IF s # << >> /\ s[Len(s)] = " " THEN rstrip(SubSeq(s, 1, Len(s) - 1)) ELSE s

strip(s) == rstrip(lstrip(s))

\* str.capitalize: first character upper case, the rest lower case
capitalize(s) ==
    [k \in 1..Len(s) |-> IF k = 1 THEN UpperOfCh(s[k]) ELSE LowerOfCh(s[k])]

\* does old occur in s at position 1
StartsWith(s, old) == Len(old) <= Len(s) /\ SubSeq(s, 1, Len(old)) = old

\* str.replace(old, new), old non-empty: leftmost non-overlapping occurrences
RECURSIVE replace(_, _, _)
replace(s, old, new) ==
    IF s = << >> THEN << >>
    ELSE IF StartsWith(s, old)
         THEN new \o replace(SubSeq(s, Len(old) + 1, Len(s)), old, new)
         ELSE << Head(s) >> \o replace(Tail(s), old, new)

\* int(s) for a string of decimal digits
RECURSIVE int(_)
int(s) ==
    IF s = << >> THEN 0 ELSE 10 * int(SubSeq(s, 1, Len(s) - 1)) + DigitValue(s[Len(s)])

\* f"{a} {b}"
\* the two texts joined the other way round
JoinedReversed(a, b) == b \o << " " >> \o a

Joined(a, b) == a \o << " " >> \o b

(***************************************************************************)
(* slugify (python-slugify): accents removed, lower case, every run of     *)
(* other characters one "-", no "-" at either end                          *)
(***************************************************************************)
SlugCh(c) ==
    IF c \in UpperCh THEN AsciiSeq[IndexOf(c, UpperSeq)]
    ELSE IF c \in LowerCh THEN AsciiSeq[IndexOf(c, LowerSeq)]
    ELSE IF c \in DigitCh THEN c
    ELSE "-"

\* s with each run of "-" collapsed to one "-"
RECURSIVE CollapseDashes(_)
CollapseDashes(s) ==
    IF Len(s) < 2 THEN s
    ELSE IF s[1] = "-" /\ s[2] = "-" THEN CollapseDashes(Tail(s))
    ELSE << Head(s) >> \o CollapseDashes(Tail(s))

RECURSIVE StripDashes(_)
StripDashes(s) ==
    IF s # << >> /\ Head(s) = "-" THEN StripDashes(Tail(s))
    ELSE IF s # << >> /\ s[Len(s)] = "-" THEN StripDashes(SubSeq(s, 1, Len(s) - 1))
    ELSE s

slugify(s) == StripDashes(CollapseDashes([k \in 1..Len(s) |-> SlugCh(s[k])]))

(***************************************************************************)
(* CuillereDArgent.filter_recipes and clean_recipe                         *)
(***************************************************************************)
AllowedChars == << << " " >>, << "," >>, << "(" >>, << ")" >>, << "-" >>, << "|" >> >>

RECURSIVE ReplaceEach(_, _)
ReplaceEach(recipe, chars) ==
    IF chars = << >> THEN recipe
    ELSE ReplaceEach(replace(recipe, Head(chars), << >>), Tail(chars))

\* filter_recipes with the apostrophe among the allowed characters
filter_recipes_apostrophe(recipe) ==
    isalnum(ReplaceEach(recipe, Append(AllowedChars, << "'" >>)))

filter_recipes(recipe) == isalnum(ReplaceEach(recipe, AllowedChars))

to_correct ==
    << << << "|" >>, << >> >>,
       << << "p", "a", "t", "e", "s" >>, << "p", "â", "t", "e", "s" >> >>,
       << << "P", "A", "T", "E", "S" >>, << "P", "Â", "T", "E", "S" >> >> >>

RECURSIVE Correct(_, _)
Correct(recipe, table) ==
    IF table = << >> THEN recipe
    ELSE Correct(replace(recipe, Head(table)[1], Head(table)[2]), Tail(table))

clean_recipe(recipe) == Correct(recipe, to_correct)

\* read, lines 121-128: the content-pass lines that reach the merge loop
UnorderedRecipes(lines) ==
    LET nonempty == SelectSeq(lines, LAMBDA l : l # << >>)
        kept     == SelectSeq(nonempty, filter_recipes)
    IN  [k \in 1..Len(kept) |-> clean_recipe(kept[k])]

(***************************************************************************)
(* read, lines 130-140: the merge loop.  recipes[-1] of an empty list      *)
(* raises IndexError: ok = FALSE.                                          *)
(***************************************************************************)
\* the numeric test on the whole line instead of its first token
StartsEntryWholeLine(recipe) == isupper(recipe) \/ isnumeric(recipe)

StartsEntry(recipe) == isupper(recipe) \/ isnumeric(FirstToken(recipe))

RECURSIVE MergeFrom(_, _)
MergeFrom(unordered_recipes, recipes) ==
    IF unordered_recipes = << >> THEN [ok |-> TRUE, recipes |-> recipes]
    ELSE LET recipe == Head(unordered_recipes)
         IN  IF StartsEntry(recipe)
             THEN MergeFrom(Tail(unordered_recipes), Append(recipes, recipe))
             ELSE IF recipes = << >>
                  THEN [ok |-> FALSE, recipes |-> recipes]
                  ELSE MergeFrom(Tail(unordered_recipes),
                                 [recipes EXCEPT ![Len(recipes)] = Joined(@, recipe)])

MergeLines(unordered_recipes) == MergeFrom(unordered_recipes, << >>)

(***************************************************************************)
(* read, lines 145-178: the header loop over the category-pass lines       *)
(***************************************************************************)
\* the branch of lines 152, 169 and 174 a category-pass line takes
LineClass(category) ==
    IF isupper(category) THEN "AllCaps"
    ELSE IF category = << >> THEN "Blank"
    ELSE "Mixed"

\* a header of an earlier page still in the list when the loop starts
HeaderInitStale ==
    [found_breakline |-> FALSE,
     category_walker |-> << >>,
     headers         |-> << << "1", "2", " ", "R", "i", "z" >> >>]

HeaderInit == [found_breakline |-> FALSE, category_walker |-> << >>, headers |-> << >>]

\* the header loop without the reset of lines 177-178
HeaderStepNoReset(h, category) ==
    IF isupper(category)
    THEN IF h.found_breakline
         THEN [found_breakline |-> FALSE,
               category_walker |-> << category >>,
               headers         |-> h.headers \o h.category_walker]
         ELSE [h EXCEPT !.category_walker = Append(@, category)]
    ELSE IF category = << >>
    THEN [h EXCEPT !.found_breakline = TRUE]
    ELSE h

HeaderStep(h, category) ==
    IF isupper(category)
    THEN IF h.found_breakline
         THEN [found_breakline |-> FALSE,
               category_walker |-> << category >>,
               headers         |-> h.headers \o h.category_walker]
         ELSE [h EXCEPT !.category_walker = Append(@, category)]
    ELSE IF category = << >>
    THEN [h EXCEPT !.found_breakline = TRUE]
    ELSE IF ~isupper(category)
    THEN [h EXCEPT !.found_breakline = FALSE, !.category_walker = << >>]
    ELSE h

RECURSIVE HeaderLoop(_, _)
HeaderLoop(h, lines) ==
    IF lines = << >> THEN h ELSE HeaderLoop(HeaderStep(h, Head(lines)), Tail(lines))

Headers(lines) == HeaderLoop(HeaderInit, lines).headers

(***************************************************************************)
(* read, lines 180-183: header removal by slug equality                    *)
(***************************************************************************)
RemoveHeader(recipes, header) ==
    SelectSeq(recipes, LAMBDA el : slugify(el) # slugify(header))

RECURSIVE RemoveHeaders(_, _)
RemoveHeaders(recipes, headers) ==
    IF headers = << >> THEN recipes
    ELSE RemoveHeaders(RemoveHeader(recipes, Head(headers)), Tail(headers))

(***************************************************************************)
(* Bounds and inputs.  The OCR engine is an external collaborator: the two *)
(* texts it returns for a page are inputs, drawn from the lines below.     *)
(***************************************************************************)
MaxImages == 2
MaxContentLines == 2
MaxCategoryLines == 4

CategoryLine == << "R", "I", "Z" >>
RecipeLine == << "1", "2", " ", "R", "i", "z" >>
ContinuationLine == << "c", "r", "u" >>
NumberLine == << "1", "2" >>
NumberedCapsLine == << "1", "2", " ", "R", "I", "Z" >>
EmptyLine == << >>
BlankLine == << " " >>

ContentPool == { CategoryLine, RecipeLine, ContinuationLine }
CategoryPool == { CategoryLine, NumberedCapsLine, ContinuationLine, EmptyLine, BlankLine }

SeqsUpTo(S, lo, hi) == UNION { [1..m -> S] : m \in lo..hi }

\* the page of the end-to-end example
SoupeLine == << "1", "2", " ", "S", "o", "u", "p", "e" >>
OignonLine == << "à", " ", "l", "'", "o", "i", "g", "n", "o", "n" >>
SaucesLine == << "S", "A", "U", "C", "E", "S" >>
BeurreLine ==
    << "4", "5", " ", "B", "e", "u", "r", "r", "e", " ", "b", "l", "a", "n", "c" >>
SoupeCapsLine ==
    << "S", "O", "U", "P", "E", " ", "A", " ", "L", "'", "O", "I", "G", "N", "O", "N" >>

ExampleContent == << SoupeLine, OignonLine, SaucesLine, BeurreLine >>
ExampleCategories == << SaucesLine, EmptyLine, NumberLine, SoupeCapsLine >>

\* a page announcing SAUCES CHAUDES before a recipe whose name was misread
SaucesChaudesLine ==
    << "S", "A", "U", "C", "E", "S", " ", "C", "H", "A", "U", "D", "E", "S" >>
PatesLine == << "7", " ", "p", "a", "t", "e", "s", "|" >>
SymbolLine == << "#", "-" >>
AnnouncingContent == << EmptyLine, SymbolLine, SaucesChaudesLine, PatesLine >>

\* the category-pass texts of the run: categories.split("\n") has at least one line
CategoryTexts ==
    { << EmptyLine >>,
      << CategoryLine, EmptyLine, NumberedCapsLine >>,
      << NumberedCapsLine, EmptyLine, CategoryLine >> }

\* a page with two announcements in a row, then a candidate without a number
TwoAnnouncementsContent ==
    << CategoryLine, SaucesLine, CategoryLine, ContinuationLine, RecipeLine >>

PageInputs ==
    { [content |-> c, categories |-> k] :
        c \in SeqsUpTo(ContentPool, 0, MaxContentLines), k \in CategoryTexts }
    \cup { [content |-> ExampleContent, categories |-> ExampleCategories],
           [content |-> AnnouncingContent, categories |-> << EmptyLine >>],
           [content |-> << BeurreLine >>, categories |-> << EmptyLine >>],
           [content |-> TwoAnnouncementsContent, categories |-> << EmptyLine >>],
           [content |-> << NumberLine, RecipeLine >>, categories |-> << EmptyLine >>] }

\* a document left in the index by an earlier run
StaleDocument ==
    [recipe_id |-> 9, category |-> << >>, name |-> SaucesLine, page |-> 3]

(***************************************************************************)
(* State                                                                   *)
(***************************************************************************)
VARIABLES
    pc,                \* where the run is
    total_images,      \* len(self.images_path)
    image_path_index,  \* the number of images read
    content,           \* read: the content-pass lines of the page being read
    categories,        \* read: the category-pass lines of the page being read
    found_breakline,   \* read: the header loop's flag
    category_walker,   \* read: the header loop's current run
    headers,           \* read: the header lines found
    recipes,           \* read: the candidates left after header removal
    pos,               \* the position of the running loop in its list
    current_category,  \* read: the announcement being accumulated
    returned_category, \* history: current_category when read last returned
    category,          \* self.category
    self_recipes,      \* self.recipes
    documents,         \* the documents of the index
    clears,            \* the number of delete_all_documents calls
    recipe_index       \* index_recipes: the next recipe_id

vars ==
    << pc, total_images, image_path_index, content, categories, found_breakline,
       category_walker, headers, recipes, pos, current_category, returned_category,
       category, self_recipes, documents, clears, recipe_index >>

header_locals == << found_breakline, category_walker, headers >>
locals == << content, categories, header_locals, recipes, pos, current_category >>
sink == << documents, clears, recipe_index >>

Init ==
    /\ pc = "walk"
    /\ total_images \in 0..MaxImages
    /\ image_path_index = 0
    /\ content = << >>
    /\ categories = << >>
    /\ found_breakline = FALSE
    /\ category_walker = << >>
    /\ headers = << >>
    /\ recipes = << >>
    /\ pos = 0
    /\ current_category = << >>
    /\ returned_category = << >>
    /\ category = << >>
    /\ self_recipes = << >>
    /\ documents = << StaleDocument >>
    /\ clears = 0
    /\ recipe_index = 0

(***************************************************************************)
(* walk_images                                                             *)
(***************************************************************************)
NoImage ==
    /\ pc = "walk"
    /\ total_images = 0
    /\ pc' = "exit_no_image"
    /\ UNCHANGED << total_images, image_path_index, locals, returned_category,
                    category, self_recipes, sink >>

(***************************************************************************)
(* read, lines 106-188: both OCR passes, filter, clean, merge, header      *)
(* extraction and header removal                                           *)
(***************************************************************************)
Read(page) ==
    /\ pc = "walk"
    /\ image_path_index < total_images
    /\ content' = page.content
    /\ categories' = page.categories
    /\ LET merged == MergeLines(UnorderedRecipes(page.content))
           h      == HeaderLoop(HeaderInit, page.categories)
       IN  IF merged.ok
           THEN /\ found_breakline' = h.found_breakline
                /\ category_walker' = h.category_walker
                /\ headers' = h.headers
                /\ recipes' = RemoveHeaders(merged.recipes, h.headers)
                /\ pos' = 1
                /\ pc' = "loop"
           ELSE /\ UNCHANGED header_locals
                /\ recipes' = << >>
                /\ pos' = 0
                /\ pc' = "crash"
    /\ current_category' = << >>
    /\ UNCHANGED << total_images, image_path_index, returned_category, category,
                    self_recipes, sink >>

ReadImage == \E page \in PageInputs : Read(page)

(***************************************************************************)
(* read, lines 192-223: one iteration of the assembling loop               *)
(***************************************************************************)
\* the active category forgotten when nothing is pending
CommittedCategoryReset(cat, pending) ==
    IF Len(pending) > 0 THEN capitalize(strip(pending)) ELSE << >>

\* the pending text committed as it is
CommittedCategoryRaw(cat, pending) ==
    IF Len(pending) > 0 THEN pending ELSE cat

\* lines 203-204
CommittedCategory(cat, pending) ==
    IF Len(pending) > 0 THEN capitalize(strip(pending)) ELSE cat

\* lines 210-220: the record of a candidate with a numeric leading token
RecipeParts(recipe, cat) ==
    LET recipe_parts == Append(Split1(recipe), cat)
    IN  [k \in 1..Len(recipe_parts) |-> strip(recipe_parts[k])]

Assemble ==
    /\ pc = "loop"
    /\ pos <= Len(recipes)
    /\ pos' = pos + 1
    /\ LET recipe == recipes[pos]
       IN  IF isupper(recipe)
           THEN /\ current_category' = Joined(current_category, recipe)
                /\ UNCHANGED << category, self_recipes >>
           ELSE /\ category' = CommittedCategory(category, current_category)
                /\ current_category' = << >>
                /\ IF isnumeric(Split1(recipe)[1])
                   THEN self_recipes' = Append(self_recipes, RecipeParts(recipe, category'))
                   ELSE UNCHANGED self_recipes
    /\ UNCHANGED << pc, total_images, image_path_index, content, categories,
                    header_locals, recipes, returned_category, sink >>

\* read returns: its locals are gone, walk_images goes on to the next image
ReturnFromRead ==
    /\ pc = "loop"
    /\ pos > Len(recipes)
    /\ pc' = "walk"
    /\ image_path_index' = image_path_index + 1
    /\ returned_category' = current_category
    /\ content' = << >>
    /\ categories' = << >>
    /\ found_breakline' = FALSE
    /\ category_walker' = << >>
    /\ headers' = << >>
    /\ recipes' = << >>
    /\ pos' = 0
    /\ current_category' = << >>
    /\ UNCHANGED << total_images, category, self_recipes, sink >>

\* walk_images, line 96: every image was read
FinishWalk ==
    /\ pc = "walk"
    /\ total_images > 0
    /\ image_path_index = total_images
    /\ pc' = "index"
    /\ UNCHANGED << total_images, image_path_index, locals, returned_category,
                    category, self_recipes, sink >>

(***************************************************************************)
(* index_recipes                                                           *)
(***************************************************************************)
\* the documents removed before the test of line 233
StartIndexClearFirst ==
    /\ pc = "index"
    /\ documents' = << >>
    /\ clears' = clears + 1
    /\ IF Len(self_recipes) = 0
       THEN /\ pc' = "exit_no_recipe"
            /\ UNCHANGED << pos, recipe_index >>
       ELSE /\ pc' = "add"
            /\ recipe_index' = 1
            /\ pos' = 1
    /\ UNCHANGED << total_images, image_path_index, content, categories, header_locals,
                    recipes, current_category, returned_category, category,
                    self_recipes >>

\* lines 229-240
StartIndex ==
    /\ pc = "index"
    /\ IF Len(self_recipes) = 0
       THEN /\ pc' = "exit_no_recipe"
            /\ UNCHANGED << pos, sink >>
       ELSE /\ pc' = "add"
            /\ documents' = << >>
            /\ clears' = clears + 1
            /\ recipe_index' = 1
            /\ pos' = 1
    /\ UNCHANGED << total_images, image_path_index, content, categories, header_locals,
                    recipes, current_category, returned_category, category,
                    self_recipes >>

\* the index advanced by two
NextRecipeIndexSkip(n) == n + 2

\* line 256
NextRecipeIndex(n) == n + 1

\* lines 248-253
Document(id, recipe) ==
    [recipe_id |-> id, category |-> recipe[3], name |-> recipe[2], page |-> int(recipe[1])]

\* delete_all_documents called inside the loop
AddDocumentClearing ==
    /\ pc = "add"
    /\ pos <= Len(self_recipes)
    /\ pc' = pc
    /\ documents' =
          << [recipe_id |-> recipe_index,
              category  |-> Last(self_recipes[pos]),
              name      |-> self_recipes[pos][2],
              page      |-> int(self_recipes[pos][1])] >>
    /\ clears' = clears + 1
    /\ recipe_index' = recipe_index + 1
    /\ pos' = pos + 1
    /\ UNCHANGED << total_images, image_path_index, content, categories, header_locals,
                    recipes, current_category, returned_category, category,
                    self_recipes >>

\* lines 243-256: one iteration over self.recipes, at position pos; recipe[2] of
\* a two-element record raises IndexError
AddDocument ==
    /\ pc = "add"
    /\ pos <= Len(self_recipes)
    /\ LET recipe == self_recipes[pos]
       IN  IF Len(recipe) < 3
           THEN /\ pc' = "crash"
                /\ UNCHANGED << pos, sink >>
           ELSE /\ pc' = pc
                /\ documents' = Append(documents, Document(recipe_index, recipe))
                /\ recipe_index' = NextRecipeIndex(recipe_index)
                /\ pos' = pos + 1
                /\ UNCHANGED clears
    /\ UNCHANGED << total_images, image_path_index, content, categories, header_locals,
                    recipes, current_category, returned_category, category,
                    self_recipes >>

\* line 259
FinishIndex ==
    /\ pc = "add"
    /\ pos > Len(self_recipes)
    /\ pc' = "done"
    /\ UNCHANGED << total_images, image_path_index, locals, returned_category,
                    category, self_recipes, sink >>

Next ==
    \/ NoImage
    \/ ReadImage
    \/ Assemble
    \/ ReturnFromRead
    \/ FinishWalk
    \/ StartIndex
    \/ AddDocument
    \/ FinishIndex

Spec == Init /\ [][Next]_vars

(***************************************************************************)
(* The header loop of read on its own, one category-pass line a step, over *)
(* every text of at most MaxCategoryLines lines                            *)
(***************************************************************************)
HeaderLoopInit ==
    /\ pc = "headers"
    /\ total_images = 1
    /\ image_path_index = 0
    /\ content = << >>
    /\ categories \in SeqsUpTo(CategoryPool, 1, MaxCategoryLines)
    /\ found_breakline = FALSE
    /\ category_walker = << >>
    /\ headers = << >>
    /\ recipes = << >>
    /\ pos = 1
    /\ current_category = << >>
    /\ returned_category = << >>
    /\ category = << >>
    /\ self_recipes = << >>
    /\ documents = << StaleDocument >>
    /\ clears = 0
    /\ recipe_index = 0

\* lines 149-178: one iteration
HeaderLine ==
    /\ pc = "headers"
    /\ pos <= Len(categories)
    /\ LET h == HeaderStep([found_breakline |-> found_breakline,
                            category_walker |-> category_walker,
                            headers         |-> headers], categories[pos])
       IN  /\ found_breakline' = h.found_breakline
           /\ category_walker' = h.category_walker
           /\ headers' = h.headers
    /\ pos' = pos + 1
    /\ UNCHANGED << pc, total_images, image_path_index, content, categories, recipes,
                    current_category, returned_category, category, self_recipes, sink >>

\* the loop is over: headers is final
HeaderLoopEnd ==
    /\ pc = "headers"
    /\ pos > Len(categories)
    /\ pc' = "headers_done"
    /\ UNCHANGED << total_images, image_path_index, locals, returned_category,
                    category, self_recipes, sink >>

HeaderNext == HeaderLine \/ HeaderLoopEnd

HeaderSpec == HeaderLoopInit /\ [][HeaderNext]_vars

(***************************************************************************)
(* Properties                                                              *)
(***************************************************************************)
NotAllCaps(el) == ~isupper(el)

\* the candidate has a numeric leading token: the assembling loop emits a record
LeadsWithNumber(el) == ~isupper(el) /\ isnumeric(Split1(el)[1])

\* the merge loop's result for the page being read
Merged == MergeLines(UnorderedRecipes(content))

\* the assembling loop is about to emit the first record of the page, and no
\* candidate before it was an announcement
AtFirstRecordOfPage ==
    /\ pc = "loop"
    /\ pos <= Len(recipes)
    /\ LeadsWithNumber(recipes[pos])
    /\ \A j \in 1..(pos - 1) : ~isupper(recipes[j]) /\ ~LeadsWithNumber(recipes[j])

\* C1: a category announced on one page is the active category at the top of
\* the next page, also when its announcement was the last candidate of its
\* page: the first record of the next page, with no announcement before it,
\* carries that category in normalized form.
C1_CategoryCarriedAcrossPages ==
    [][ AtFirstRecordOfPage =>
            Last(Last(self_recipes')) =
                IF returned_category # << >>
                THEN capitalize(strip(returned_category))
                ELSE category ]_vars

\* the first line that reaches the merge loop is a continuation line
LeadingContinuation ==
    /\ UnorderedRecipes(content) # << >>
    /\ ~isupper(Head(UnorderedRecipes(content)))
    /\ ~isnumeric(FirstToken(Head(UnorderedRecipes(content))))

\* C2: when the first line that reaches the merge loop is a continuation line,
\* page processing does not crash.
C2_NoCrashOnLeadingContinuation == LeadingContinuation => pc # "crash"

\* the first and the last line of the first AllCaps run of lines, 0 without one
FirstRunStart(lines) ==
    IF \E k \in 1..Len(lines) : isupper(lines[k])
    THEN CHOOSE k \in 1..Len(lines) :
            isupper(lines[k]) /\ \A j \in 1..(k - 1) : ~isupper(lines[j])
    ELSE 0

FirstRunEnd(lines) ==
    CHOOSE e \in FirstRunStart(lines)..Len(lines) :
        /\ \A k \in FirstRunStart(lines)..e : isupper(lines[k])
        /\ e < Len(lines) => ~isupper(lines[e + 1])

FirstRunLines(lines) == { lines[k] : k \in FirstRunStart(lines)..FirstRunEnd(lines) }

\* the header loop is over, the text has an AllCaps run, and no line of the
\* first run occurs again outside it (so a header with its text is that run)
FirstRunDecided ==
    /\ pc = "headers_done"
    /\ FirstRunStart(categories) > 0
    /\ \A k \in 1..Len(categories) :
          k \notin FirstRunStart(categories)..FirstRunEnd(categories)
              => categories[k] \notin FirstRunLines(categories)

\* one or more empty lines and then an AllCaps line directly follow line e
BreakThenCapsAfter(lines, e) ==
    \E m \in (e + 2)..Len(lines) :
        /\ isupper(lines[m])
        /\ \A k \in (e + 1)..(m - 1) : lines[k] = << >>

\* C3 (as stated): the header loop never puts the first AllCaps run of the
\* category-pass lines into the header set.
C3_FirstRunNeverHeader ==
    FirstRunDecided => FirstRunLines(categories) \cap Range(headers) = {}

\* C3 (amended): the first AllCaps run is in the header set exactly when one or
\* more empty lines and then an AllCaps line directly follow it, and then the
\* whole run is.
C3_FirstRunHeaderOnlyBeforeBreak ==
    FirstRunDecided =>
        IF BreakThenCapsAfter(categories, FirstRunEnd(categories))
        THEN FirstRunLines(categories) \subseteq Range(headers)
        ELSE FirstRunLines(categories) \cap Range(headers) = {}

C3_Witness ==
    /\ FirstRunDecided
    /\ FirstRunLines(categories) \subseteq Range(headers)
    /\ Len(categories) = MaxCategoryLines

\* the records and documents of the end-to-end example
SoupeName == << "S", "o", "u", "p", "e" >>
SoupeOignonName == SoupeName \o << " " >> \o OignonLine
BeurreName == << "B", "e", "u", "r", "r", "e", " ", "b", "l", "a", "n", "c" >>
SaucesLabel == << "S", "a", "u", "c", "e", "s" >>
BeurreRecord == << << "4", "5" >>, BeurreName, SaucesLabel >>

ExampleRecordsStated == << << << "1", "2" >>, SoupeOignonName, << >> >>, BeurreRecord >>
ExampleRecords == << << << "1", "2" >>, SoupeName, << >> >>, BeurreRecord >>

ExampleDocuments(records) ==
    << [recipe_id |-> 1, category |-> << >>, name |-> records[1][2], page |-> 12],
       [recipe_id |-> 2, category |-> SaucesLabel, name |-> BeurreName, page |-> 45] >>

\* read has gone through the example page, the first page of the run
AtExamplePageEnd ==
    /\ pc = "loop"
    /\ pos > Len(recipes)
    /\ image_path_index = 0
    /\ content = ExampleContent
    /\ categories = ExampleCategories

\* C4 (as stated): the example page gives the records (12, "Soupe à l'oignon",
\* "") and (45, "Beurre blanc", "Sauces"), indexed with ids 1 and 2.
C4_ExampleAsStated ==
    /\ AtExamplePageEnd => self_recipes = ExampleRecordsStated
    /\ (pc = "done" /\ total_images = 1 /\ self_recipes = ExampleRecordsStated)
           => documents = ExampleDocuments(ExampleRecordsStated)

\* C4 (amended): the example page gives the records (12, "Soupe", "") and
\* (45, "Beurre blanc", "Sauces"), indexed with ids 1 and 2: the noise filter
\* drops the line "à l'oignon" for its apostrophe.
C4_ExampleRecords ==
    /\ AtExamplePageEnd => self_recipes = ExampleRecords
    /\ (pc = "done" /\ total_images = 1 /\ self_recipes = ExampleRecords)
           => documents = ExampleDocuments(ExampleRecords)

C4_Witness ==
    /\ pc = "done"
    /\ total_images = 1
    /\ self_recipes = ExampleRecords
    /\ documents = ExampleDocuments(ExampleRecords)

\* C5: every record has a name field of its own, and the name is not empty.
C5_NameNeverEmpty ==
    \A k \in 1..Len(self_recipes) :
        Len(self_recipes[k]) = 3 /\ self_recipes[k][2] # << >>

\* C6: header removal leaves every candidate that is not AllCaps in the
\* candidate list of its page.
C6_RemovalOnlyOfAllCaps ==
    pc = "loop" => SelectSeq(recipes, NotAllCaps) = SelectSeq(Merged.recipes, NotAllCaps)

\* every merged entry is AllCaps or begins with a numeric token
EntriesStartEntries(entries) ==
    \A k \in 1..Len(entries) :
        isupper(entries[k]) \/ isnumeric(FirstToken(entries[k]))

\* C7 (as stated): the merge loop run on its own output returns it unchanged.
C7_MergerIdempotent ==
    pc = "loop" => MergeLines(Merged.recipes) = Merged

\* C7 (amended): the merge loop run on its own output returns it unchanged
\* when every merged entry is still AllCaps or begins with a numeric token.
C7_MergerIdempotentOnEntries ==
    (pc = "loop" /\ EntriesStartEntries(Merged.recipes))
        => MergeLines(Merged.recipes) = Merged

C7_Witness ==
    /\ pc = "loop"
    /\ EntriesStartEntries(Merged.recipes)
    /\ 0 < Len(Merged.recipes)
    /\ Len(Merged.recipes) < Len(UnorderedRecipes(content))
    /\ MergeLines(Merged.recipes) = Merged

NoAllCaps(candidates) == \A k \in 1..Len(candidates) : ~isupper(candidates[k])

\* C8: on a page without an AllCaps candidate the active category does not
\* change, it is in normalized form (or still empty), and every record the
\* page emits carries it.
C8_CategoryPropagates ==
    [][ (pc = "loop" /\ NoAllCaps(recipes)) =>
            /\ category' = category
            /\ category = capitalize(strip(category))
            /\ self_recipes' # self_recipes => Last(Last(self_recipes')) = category ]_vars

SaucesChaudesLabel ==
    << "S", "a", "u", "c", "e", "s", " ", "c", "h", "a", "u", "d", "e", "s" >>

C8_Witness ==
    /\ pc = "loop"
    /\ image_path_index = 1
    /\ NoAllCaps(recipes)
    /\ recipes = << BeurreLine >>
    /\ pos > Len(recipes)
    /\ category = SaucesChaudesLabel
    /\ Len(self_recipes) = 2
    /\ self_recipes[1][3] = SaucesChaudesLabel
    /\ self_recipes[2] = << << "4", "5" >>, BeurreName, SaucesChaudesLabel >>

\* C9: the ids of the documents handed to the index are 1, 2, 3, ... in
\* emission order, across pages.
C9_SequenceIds ==
    clears > 0 =>
        /\ \A k \in 1..Len(documents) : documents[k].recipe_id = k
        /\ pc = "add" => recipe_index = Len(documents) + 1

C9_Witness ==
    /\ pc = "done"
    /\ total_images = 2
    /\ Len(documents) = 4
    /\ documents[4].recipe_id = 4

\* the step commits the accumulated announcement
CommitStep ==
    /\ pc = "loop"
    /\ pos <= Len(recipes)
    /\ ~isupper(recipes[pos])
    /\ current_category # << >>
    /\ category' = capitalize(strip(current_category))

\* C10: the active category changes only at the step that commits an
\* accumulated announcement; once non-empty it stays non-empty; every record
\* carries the active category of the moment it is emitted, empty before the
\* first announcement and non-empty after it, and emitting never crashes.
C10_CategoryChangesOnlyOnCommit ==
    [][ /\ category' # category => CommitStep
        /\ category # << >> => category' # << >>
        /\ self_recipes' # self_recipes =>
              /\ Last(Last(self_recipes')) = category'
              /\ pc' # "crash"
              /\ (category # << >>) => Last(Last(self_recipes')) # << >>
              /\ (category = << >> /\ current_category = << >>)
                     => Last(Last(self_recipes')) = << >> ]_vars

C10_Witness ==
    /\ Len(self_recipes) >= 2
    /\ Last(self_recipes[1]) = << >>
    /\ Last(Last(self_recipes)) # << >>
    /\ category # << >>

\* C11: on a fatal condition the run ends with the documents of the index as
\* they were: without an image no page is read and nothing is deleted or
\* added; with every page read and no record, the run ends before the
\* documents are deleted and before any is added.
C11_FatalLeavesSinkUntouched ==
    /\ pc = "exit_no_image" =>
          /\ image_path_index = 0
          /\ content = << >> /\ categories = << >>
          /\ self_recipes = << >>
          /\ documents = << StaleDocument >>
          /\ clears = 0
    /\ pc = "exit_no_recipe" =>
          /\ image_path_index = total_images
          /\ self_recipes = << >>
          /\ documents = << StaleDocument >>
          /\ clears = 0

C11_Witness ==
    /\ pc = "exit_no_recipe"
    /\ total_images = MaxImages
    /\ image_path_index = total_images
    /\ documents = << StaleDocument >>

\* the document the index holds for the k-th record
DocumentOfRecord(k) ==
    [recipe_id |-> k,
     category  |-> self_recipes[k][3],
     name      |-> self_recipes[k][2],
     page      |-> int(self_recipes[k][1])]

\* C12: the documents are deleted at most once, only after every page was read
\* and before the first record is submitted; the documents submitted since are
\* the records in emission order, one per call, none deleted after it was
\* submitted; a run that reaches its end has submitted them all.
C12_ClearOnceThenInOrder ==
    /\ clears <= 1
    /\ clears = 0 => documents = << StaleDocument >>
    /\ clears = 1 =>
          /\ pc \in { "add", "done", "crash" }
          /\ image_path_index = total_images
          /\ Len(self_recipes) > 0
          /\ Len(documents) = pos - 1
          /\ Len(documents) <= Len(self_recipes)
          /\ \A k \in 1..Len(documents) : documents[k] = DocumentOfRecord(k)
    /\ pc = "done" => clears = 1 /\ Len(documents) = Len(self_recipes)

C12_Witness ==
    /\ pc = "done"
    /\ clears = 1
    /\ total_images = 2
    /\ Len(documents) = 3
    /\ documents[1].name = BeurreName
    /\ documents[3] = DocumentOfRecord(3)

\* the two-state machine of the design: Seeking and AfterBreak
MachineInit == [state |-> "Seeking", current_run |-> << >>, header_set |-> {}]

MachineStep(m, class, line) ==
    IF m.state = "Seeking"
    THEN CASE class = "AllCaps" -> [m EXCEPT !.current_run = Append(@, line)]
           [] class = "Blank"   -> [m EXCEPT !.state = "AfterBreak"]
           [] class = "Mixed"   -> [m EXCEPT !.current_run = << >>]
    ELSE CASE class = "AllCaps" ->
                [state       |-> "Seeking",
                 current_run |-> << line >>,
                 header_set  |-> m.header_set \cup Range(m.current_run)]
           [] class = "Blank"   -> m
           [] class = "Mixed"   ->
                [state       |-> "Seeking",
                 current_run |-> << >>,
                 header_set  |-> m.header_set]

RECURSIVE MachineRun(_, _)
MachineRun(m, lines) ==
    IF lines = << >> THEN m
    ELSE MachineRun(MachineStep(m, LineClass(Head(lines)), Head(lines)), Tail(lines))

\* the machine after the lines the header loop has gone through
MachineNow == MachineRun(MachineInit, SubSeq(categories, 1, pos - 1))

\* C13: after every category-pass line the header loop agrees with the
\* two-state machine: found_breakline is TRUE exactly in AfterBreak,
\* category_walker is current_run, and headers holds the machine's header set.
C13_HeaderLoopRefinesMachine ==
    pc \in { "headers", "headers_done" } =>
        /\ found_breakline = (MachineNow.state = "AfterBreak")
        /\ category_walker = MachineNow.current_run
        /\ Range(headers) = MachineNow.header_set

C13_Witness ==
    /\ pc = "headers_done"
    /\ Len(categories) = MaxCategoryLines
    /\ MachineNow.state = "AfterBreak"
    /\ MachineNow.header_set # {}
    /\ MachineNow.current_run # << >>

\* the text pending after the candidates 1..n: the AllCaps candidates at the
\* end of 1..n, in order, each preceded by one space
RECURSIVE PendingText(_, _)
PendingText(candidates, n) ==
    IF n = 0 \/ ~isupper(candidates[n]) THEN << >>
    ELSE PendingText(candidates, n - 1) \o << " " >> \o candidates[n]

\* trimmed, first letter uppercase, the rest lowercase
NormalizedForm(text) ==
    LET t == strip(text)
    IN  [k \in 1..Len(t) |-> IF k = 1 THEN UpperOfCh(t[k]) ELSE LowerOfCh(t[k])]

\* C14: consecutive AllCaps candidates accumulate in order, space-joined, into
\* the pending text, without changing the active category or the records; at the
\* next candidate that is not AllCaps the pending text is committed in
\* normalized form as the active category and emptied, the record built from
\* that candidate carries the category just committed, and the commit also
\* happens when the candidate has no numeric leading token and gives no record.
C14_AccumulateThenCommit ==
    [][ pc = "loop" =>
          /\ current_category = PendingText(recipes, pos - 1)
          /\ pos <= Len(recipes) =>
               IF isupper(recipes[pos])
               THEN /\ current_category' = current_category \o << " " >> \o recipes[pos]
                    /\ category' = category
                    /\ self_recipes' = self_recipes
               ELSE /\ current_category' = << >>
                    /\ current_category # << >> =>
                           category' = NormalizedForm(current_category)
                    /\ current_category = << >> => category' = category
                    /\ IF isnumeric(Split1(recipes[pos])[1])
                       THEN /\ Len(self_recipes') = Len(self_recipes) + 1
                            /\ Last(Last(self_recipes')) = category'
                       ELSE self_recipes' = self_recipes
      ]_vars

RizSaucesLabel == << "R", "i", "z", " ", "s", "a", "u", "c", "e", "s" >>

C14_Witness ==
    /\ pc = "loop"
    /\ Len(recipes) = 4
    /\ pos = 5
    /\ isupper(recipes[1]) /\ isupper(recipes[2])
    /\ ~isupper(recipes[3]) /\ ~isnumeric(Split1(recipes[3])[1])
    /\ current_category = << >>
    /\ category = RizSaucesLabel
    /\ self_recipes # << >>
    /\ Last(self_recipes) = << << "1", "2" >>, << "R", "i", "z" >>, RizSaucesLabel >>

\* the lines joined in order with one space between two of them
RECURSIVE SpaceJoined(_)
SpaceJoined(lines) ==
    IF Len(lines) = 1 THEN lines[1]
    ELSE SpaceJoined(SubSeq(lines, 1, Len(lines) - 1)) \o << " " >> \o lines[Len(lines)]

\* the positions of the lines that start an entry, in order
StartingLines(lines) ==
    SelectSeq([k \in 1..Len(lines) |-> k],
              LAMBDA k : isupper(lines[k]) \/ isnumeric(FirstToken(lines[k])))

\* the position the entry of the j-th starting line ends at
EntryEnd(lines, starts, j) ==
    IF j < Len(starts) THEN starts[j + 1] - 1 ELSE Len(lines)

\* C15: the merge loop gives exactly one entry per line that is AllCaps or has
\* an entirely numeric first token, in the original order; the entry is that
\* line followed, each after a single space, by the lines up to the next such
\* line, so it begins with the text of its starting line and the other lines
\* create no entry.
C15_OneEntryPerStartingLine ==
    (pc = "loop" /\ pos = 1) =>
        LET lines  == UnorderedRecipes(content)
            starts == StartingLines(lines)
            merged == MergeLines(lines)
        IN  /\ merged.ok
            /\ Len(merged.recipes) = Len(starts)
            /\ \A j \in 1..Len(starts) :
                 /\ merged.recipes[j] =
                        SpaceJoined(SubSeq(lines, starts[j], EntryEnd(lines, starts, j)))
                 /\ StartsWith(merged.recipes[j], lines[starts[j]])

C15_Witness ==
    /\ pc = "loop"
    /\ Len(Merged.recipes) = 4
    /\ Len(UnorderedRecipes(content)) = 5
    /\ isupper(UnorderedRecipes(content)[3])
    /\ ~isupper(Merged.recipes[3])
    /\ Merged.recipes[3] = Joined(CategoryLine, ContinuationLine)

\* a line of spaces only, not the empty string
WhitespaceOnly(line) == line # << >> /\ strip(line) = << >>

\* C16: a whitespace-only line of the category pass is taken as an empty line
\* is: found_breakline becomes TRUE, and the accumulated run and the headers
\* stay as they are.
C16_WhitespaceLineIsBlank ==
    [][ (pc = "headers" /\ pos <= Len(categories) /\ WhitespaceOnly(categories[pos])) =>
          /\ found_breakline' = TRUE
          /\ category_walker' = category_walker
          /\ headers' = headers
      ]_vars

\* the last line of the AllCaps run that line k is in
RunEnd(lines, k) ==
    CHOOSE e \in k..Len(lines) :
        /\ \A i \in k..e : isupper(lines[i])
        /\ e < Len(lines) => ~isupper(lines[e + 1])

\* the lines of the AllCaps runs directly followed by one or more empty lines
\* and then an AllCaps line
HeaderPositions(lines) ==
    { k \in 1..Len(lines) :
        isupper(lines[k]) /\ BreakThenCapsAfter(lines, RunEnd(lines, k)) }

HeaderRunLines(lines) == { lines[k] : k \in HeaderPositions(lines) }

\* the run of line k is the last of the text, or a line that is neither AllCaps
\* nor empty comes before the next AllCaps line
LastRunOrMixedNext(lines, k) ==
    \/ \A i \in (RunEnd(lines, k) + 1)..Len(lines) : ~isupper(lines[i])
    \/ \E m \in (RunEnd(lines, k) + 1)..Len(lines) :
          /\ LineClass(lines[m]) = "Mixed"
          /\ \A i \in (RunEnd(lines, k) + 1)..(m - 1) : ~isupper(lines[i])

\* C18: when the header loop is over, the header set is exactly the set of the
\* lines of the AllCaps runs that one or more empty lines and then an AllCaps
\* line directly follow; a line of the last AllCaps run, or of a run with a
\* Mixed line before the next AllCaps line, is in the header set only if its
\* text is also a line of a run followed that way.
C18_HeaderSetExactly ==
    pc = "headers_done" =>
        /\ Range(headers) = HeaderRunLines(categories)
        /\ \A k \in 1..Len(categories) :
             (/\ isupper(categories[k])
              /\ LastRunOrMixedNext(categories, k)
              /\ categories[k] \notin HeaderRunLines(categories))
                 => categories[k] \notin Range(headers)

C18_Witness ==
    /\ pc = "headers_done"
    /\ Len(headers) = 1
    /\ \E k \in 2..(Len(categories) - 1) :
          /\ isupper(categories[k])
          /\ categories[k] \notin Range(headers)
          /\ LineClass(categories[k + 1]) = "Mixed"
          /\ categories[k - 1] = << >>

\* the candidates of a page that the headers of its own category pass leave
CandidatesKept(page_content, page_categories) ==
    SelectSeq(MergeLines(UnorderedRecipes(page_content)).recipes,
              LAMBDA el : \A header \in HeaderRunLines(page_categories) :
                             slugify(el) # slugify(header))

\* C17: every step leaves the records already in the list where they are and
\* as they are, and adds at most one at the end; between two pages no header,
\* run or candidate is kept, a page's header set comes from its own category
\* pass, and it removes candidates of the page's own content pass only, while
\* the records of earlier pages stay.
C17_PageOnlyAppends ==
    [][ /\ Len(self_recipes) <= Len(self_recipes')
        /\ Len(self_recipes') <= Len(self_recipes) + 1
        /\ SubSeq(self_recipes', 1, Len(self_recipes)) = self_recipes
        /\ pc = "walk" =>
              /\ headers = << >> /\ category_walker = << >> /\ recipes = << >>
              /\ pc' = "loop" =>
                    /\ Range(headers') = HeaderRunLines(categories')
                    /\ recipes' = CandidatesKept(content', categories')
                    /\ self_recipes' = self_recipes
        /\ (pc = "loop" /\ pc' = "loop") =>
              /\ recipes' = recipes
              /\ headers' = headers
      ]_vars

C17_Witness ==
    /\ pc = "loop"
    /\ image_path_index = 1
    /\ pos > Len(recipes)
    /\ headers # << >>
    /\ Len(recipes) < Len(Merged.recipes)
    /\ Len(self_recipes) >= 2
    /\ \E k \in 1..Len(Merged.recipes) :
          /\ Merged.recipes[k] \notin Range(recipes)
          /\ Split1(Merged.recipes[k])[1] = self_recipes[1][1]
====
